---------------------------- MODULE Spec2Model ----------------------------
(***************************************************************************)
(* The product usecase of store_api (src/store/usecases/product.py) and    *)
(* the query controller (src/store/controllers/product.py), run by        *)
(* concurrent requests against one MongoDB collection.                     *)
(*                                                                         *)
(* Every `await` on the collection is one atomic step of the store; the   *)
(* code between two awaits runs without interleaving (one asyncio event   *)
(* loop), so each action below is the code from one await to the next.    *)
(*                                                                         *)
(* The collection follows the capability of spec section 6: insert_one    *)
(* yields a generated id or an error, find_one a document or nothing, the *)
(* update a document, nothing or an error, delete_one a count.  The one   *)
(* failure added to it is the one the code itself handles: delete_one     *)
(* raising inside create's rollback (usecases/product.py:32-36).          *)
(*                                                                         *)
(* The modules are modelled as loaded: models/product.py:1 imports Field  *)
(* from dataclasses where pydantic's is meant, and controllers/product.py *)
(* uses Query without importing it.                                        *)
(***************************************************************************)
EXTENDS Integers, Sequences, FiniteSets, TLC

VARIABLES
    store,   \* the "products" collection: a set of documents
    nextId,  \* how many ProductModel objects have been built so far
    now,     \* the wall clock read by datetime.utcnow()
    call,    \* per request slot: the operation in flight, at its await
    last,    \* the call that returned to its caller most recently
    hist     \* history, per generated id: what removed its document

vars == <<store, nextId, now, call, last, hist>>

(***************************************************************************)
(* Bounds of the model.                                                    *)
(***************************************************************************)
NumProcs == 2
MaxIds == 2
MaxTime == 1

Procs == 1..NumProcs
Times == 0..MaxTime

(***************************************************************************)
(* Optional values (Python's None) and identifiers.  A UUID and an         *)
(* ObjectId are values of different types: they never compare equal.       *)
(***************************************************************************)
None == <<>>
Some(v) == <<v>>

Uuid(n) == <<"UUID", n>>
ObjectId(n) == <<"ObjectId", n>>
Uuids == {Uuid(n) : n \in 1..MaxIds}

(***************************************************************************)
(* Prices.  A price is a number in one of three representations: Decimal   *)
(* (the request schemas), float (ProductModel, the query filter) and       *)
(* Decimal128 (ProductUpdate).  The model's prices are whole numbers, for  *)
(* which each conversion keeps the value and changes the representation.   *)
(***************************************************************************)
Decimal(n) == [repr |-> "Decimal", val |-> n]
ToFloat(p) == [repr |-> "float", val |-> p.val]
convert_decimal_128(v) == [repr |-> "Decimal128", val |-> v.val]
ToDecimal(p) == [repr |-> "Decimal", val |-> p.val]

(***************************************************************************)
(* Names are sequences of characters; "." is the one regex metacharacter   *)
(* of the alphabet.                                                        *)
(***************************************************************************)
Lower(c) == CASE c = "A" -> "a" [] c = "B" -> "b" [] OTHER -> c

\* MongoDB's {"$regex": pat, "$options": "i"}: an unanchored, case-insensitive
\* search for pat as a regular expression.
RegexCharI(pc, c) == pc = "." \/ Lower(pc) = Lower(c)
RegexSearchI(pat, text) ==
    \E off \in 0..(Len(text) - Len(pat)) :
        \A j \in 1..Len(pat) : RegexCharI(pat[j], text[off + j])

(***************************************************************************)
(* Exceptions: a kind and a message (a sequence of its parts).             *)
(***************************************************************************)
Exc(kind, msg) == [kind |-> kind, msg |-> msg]
InsertionException(msg) == Exc("InsertionException", msg)
NotFoundException(msg) == Exc("NotFoundException", msg)
Str(e) == e.msg

(***************************************************************************)
(* The collection.  A filter is one equality on one field.                 *)
(***************************************************************************)
Filter(field, value) == [field |-> field, value |-> value]
Matching(coll, flt) == {d \in coll : d[flt.field] = flt.value}

\* insert_one: the driver adds the generated _id to the document.
InsertOne(coll, dump, oid) == coll \cup {[_id |-> oid] @@ dump}

\* find_one: a matching document, or None.
FindOne(coll, flt) ==
    IF Matching(coll, flt) = {} THEN None
    ELSE Some(CHOOSE d \in Matching(coll, flt) : TRUE)

\* delete_one: removes one matching document; deleted_count is 0 or 1.
DeleteOneTarget(coll, flt) == FindOne(coll, flt)
DeleteOne(coll, flt) ==
    IF DeleteOneTarget(coll, flt) = None THEN coll
    ELSE coll \ {DeleteOneTarget(coll, flt)[1]}
DeletedCount(coll, flt) == Cardinality(coll) - Cardinality(DeleteOne(coll, flt))

\* One document with the fields of `set` replaced ($set).
ApplySet(d, set) == [k \in DOMAIN d \cup DOMAIN set |->
                        IF k \in DOMAIN set THEN set[k] ELSE d[k]]


(***************************************************************************)
(* Schemas and the model class.                                            *)
(***************************************************************************)
\* The request bodies of the model: ProductIn (all four fields required).
Widget == [name |-> <<"A", "b">>, quantity |-> 1, price |-> Decimal(2), status |-> TRUE]
Gadget == [name |-> <<"b">>, quantity |-> 0, price |-> Decimal(3), status |-> FALSE]
ProductIns == {Widget, Gadget}

\* CreateBaseModel (store/models/base.py): the client-side UUID field "id" that
\* get, update and delete filter on.
CreateBaseModel(uuid) == [id |-> uuid]

\* ProductModel(**body.model_dump()).model_dump(): price becomes a float; the two
\* timestamps are two evaluations of datetime.utcnow (t1, then t2).
ProductModel(body, uuid, t1, t2) ==
    CreateBaseModel(uuid) @@
    [name |-> body.name, quantity |-> body.quantity, price |-> ToFloat(body.price),
     status |-> body.status, created_at |-> t1, updated_at |-> t2]

\* ProductOut(**kw): the schema's fields, extra keys (such as _id) ignored.
ProductOut(kw) ==
    [id |-> kw.id, name |-> kw.name, quantity |-> kw.quantity,
     price |-> ToDecimal(kw.price), status |-> kw.status,
     created_at |-> kw.created_at, updated_at |-> kw.updated_at]
ProductUpdateOut(kw) == ProductOut(kw)

Ok(v) == [kind |-> "ok", value |-> v]
Raise(e) == [kind |-> "raise", exc |-> e]

\* usecases/product.py:27: ProductOut(**product_model.model_dump(), id=str(inserted_id)).
\* A keyword given both in the unpacked mapping and explicitly is a TypeError.
CreateReturn(dump, oid) ==
    IF "id" \in DOMAIN dump
    THEN Raise(Exc("TypeError", <<"got multiple values for keyword argument 'id'">>))
    ELSE Ok(ProductOut([id |-> <<"str", oid>>] @@ dump))

(***************************************************************************)
(* Request slots.  A slot is idle or holds a coroutine suspended at an     *)
(* await, with its argument and locals; a call that returns or raises      *)
(* leaves its slot idle and is recorded in `last`.                         *)
(***************************************************************************)
Idle == [op |-> "none", pc |-> "idle", arg |-> None, loc |-> None]
Ready(p) == call[p] = Idle
Await(op, pc, arg, loc) == [op |-> op, pc |-> pc, arg |-> arg, loc |-> loc]
At(p, op, pc) == call[p].op = op /\ call[p].pc = pc
Done(op, arg, loc, out) == [op |-> op, arg |-> arg, loc |-> loc, out |-> out]
NoCall == Done("none", None, None, None)

\* p's call ends with `done`.
Return(p, done) ==
    /\ call' = [call EXCEPT ![p] = Idle]
    /\ last' = done

NoHist == [deletes |-> 0, rolledBack |-> FALSE]
\* The generated ids whose documents are in coll.
IdsOf(coll) == {d.id : d \in coll}

Init ==
    /\ store = {}
    /\ nextId = 0
    /\ now = 0
    /\ call = [p \in Procs |-> Idle]
    /\ last = NoCall
    /\ hist = [u \in Uuids |-> NoHist]

\* The clock advances.
Tick ==
    /\ now < MaxTime
    /\ now' = now + 1
    /\ UNCHANGED <<store, nextId, call, last, hist>>

(***************************************************************************)
(* ProductUsecase.create                                                   *)
(***************************************************************************)
\* The handler's final raise (line 38).
CreateWrap(e) == InsertionException(<<"Failed to create product">> \o Str(e))
\* As RollbackFilter, keyed on the field the other operations filter on.
RollbackFilterOnId(inserted_id) == Filter("id", inserted_id)
\* The filter of the compensating delete (line 33).
RollbackFilter(inserted_id) == Filter("_id", inserted_id)

\* The two utcnow() of one ProductModel: the second is the first plus the time
\* that passed between them, one of `drift`.
SecondNow(t1, drift) == {t \in Times : t - t1 \in drift}

CreateLoc(result, raised, rollback, rollback_err) ==
    [result |-> result, raised |-> raised, rollback |-> rollback,
     rollback_err |-> rollback_err]

\* Lines 24-25, insert_one raises: `result` is never bound, nothing is rolled back.
CreateInsertError(p, body, t2) ==
    /\ Ready(p) /\ nextId < MaxIds
    /\ Return(p, Done("create", body, CreateLoc(None, None, None, FALSE),
                      Raise(CreateWrap(Exc("PyMongoError", <<"insert failed">>)))))
    /\ nextId' = nextId + 1
    /\ now' = t2
    /\ UNCHANGED <<store, hist>>

\* Lines 24-29, insert_one reports no inserted id (and has stored nothing): the
\* InsertionException of line 29 is caught at line 30 and wrapped at line 38.
CreateNoInsertedId(p, body, t2) ==
    /\ Ready(p) /\ nextId < MaxIds
    /\ LET e == InsertionException(<<"Failed to create product", "No inserted ID">>)
       IN  Return(p, Done("create", body, CreateLoc(None, Some(e), None, FALSE),
                          Raise(CreateWrap(e))))
    /\ nextId' = nextId + 1
    /\ now' = t2
    /\ UNCHANGED <<store, hist>>

\* Lines 24-27 and 30-33, insert_one stores the document: line 27 returns, or
\* raises into the handler, which awaits the compensating delete_one.
CreateInsert(p, body, t2) ==
    /\ Ready(p) /\ nextId < MaxIds
    /\ LET dump == ProductModel(body, Uuid(nextId + 1), now, t2)
           oid == ObjectId(nextId + 1)
           ret == CreateReturn(dump, oid)
       IN  /\ store' = InsertOne(store, dump, oid)
           /\ IF ret.kind = "ok"
              THEN Return(p, Done("create", body,
                                  CreateLoc(Some(oid), None, None, FALSE), ret))
              ELSE /\ call' = [call EXCEPT ![p] =
                          Await("create", "create_except", body,
                                [result |-> Some(oid), e |-> ret.exc])]
                   /\ last' = last
    /\ nextId' = nextId + 1
    /\ now' = t2
    /\ UNCHANGED hist

\* Lines 33-38: delete_one on the inserted document (its failure is swallowed),
\* then the InsertionException.
CreateRollback(p, fails) ==
    /\ At(p, "create", "create_except")
    /\ LET c == call[p]
           flt == RollbackFilter(c.loc.result[1])
           after == IF fails THEN store ELSE DeleteOne(store, flt)
       IN  /\ store' = after
           /\ hist' = [u \in Uuids |->
                  IF u \in IdsOf(store) \ IdsOf(after)
                  THEN [hist[u] EXCEPT !.rolledBack = TRUE] ELSE hist[u]]
           /\ Return(p, Done("create", c.arg,
                             CreateLoc(c.loc.result, None, Some(flt), fails),
                             Raise(CreateWrap(c.loc.e))))
    /\ UNCHANGED <<nextId, now>>

(***************************************************************************)
(* ProductUsecase.get                                                      *)
(***************************************************************************)
\* As GetFilter, keyed on the store's own identifier.
GetFilterOnObjectId(id) == Filter("_id", id)
GetFilter(id) == Filter("id", id)

\* Lines 41-46.
Get(p, id) ==
    /\ Ready(p)
    /\ LET result == FindOne(store, GetFilter(id))
           e == NotFoundException(<<"Product not found with filter", id>>)
       IN  IF result = None
           THEN Return(p, Done("get", id, [raised |-> Some(e)], Raise(e)))
           ELSE Return(p, Done("get", id, [raised |-> None], Ok(ProductOut(result[1]))))
    /\ UNCHANGED <<store, nextId, now, hist>>

(***************************************************************************)
(* ProductUsecase.query and the query controller                           *)
(***************************************************************************)
NoFilters ==
    [min_price |-> None, max_price |-> None, name |-> None, status |-> None]
\* The ProductFilters objects of the model.
FilterInputs ==
    { NoFilters,
      [NoFilters EXCEPT !.min_price = Some(Decimal(3))],
      [NoFilters EXCEPT !.max_price = Some(Decimal(2))],
      [NoFilters EXCEPT !.min_price = Some(Decimal(2)), !.max_price = Some(Decimal(3))],
      [NoFilters EXCEPT !.min_price = Some(Decimal(3)), !.max_price = Some(Decimal(2))],
      [NoFilters EXCEPT !.name = Some(<<"a">>)],
      [NoFilters EXCEPT !.name = Some(<<".", "b">>)],
      [NoFilters EXCEPT !.name = Some(<<"B">>), !.status = Some(FALSE)] }

\* Lines 49-64: the MongoDB filter built from the given fields; `filters` is None
\* when query() is called without an argument.
QueryFilter(filters) ==
    IF filters = None THEN [price |-> [gte |-> None, lte |-> None],
                            name |-> None, status |-> None]
    ELSE LET f == filters[1]
         IN  [price |-> [gte |-> IF f.min_price # None
                                 THEN Some(ToFloat(f.min_price[1])) ELSE None,
                         lte |-> IF f.max_price # None
                                 THEN Some(ToFloat(f.max_price[1])) ELSE None],
              name |-> f.name,
              status |-> f.status]

\* Whether document d satisfies the filter: $gte and $lte compare numbers by
\* value, $regex searches, a plain value is an equality.
MatchesQuery(d, qf) ==
    /\ qf.price.gte # None => d.price.val >= qf.price.gte[1].val
    /\ qf.price.lte # None => d.price.val <= qf.price.lte[1].val
    /\ qf.name # None => RegexSearchI(qf.name[1], d.name)
    /\ qf.status # None => d.status = qf.status[1]

\* Line 66: every document the filter selects, as ProductOut.
Find(coll, qf) == {ProductOut(d) : d \in {x \in coll : MatchesQuery(x, qf)}}

\* ProductUsecase.query(filters), lines 48-66.
Query(p, filters) ==
    /\ Ready(p)
    /\ Return(p, Done("query", filters, [raised |-> None],
                      Ok(Find(store, QueryFilter(Some(filters))))))
    /\ UNCHANGED <<store, nextId, now, hist>>

\* The GET / handler, controllers/product.py:52-66: it builds `filters` from the
\* query parameters and then calls usecase.query() without them.
ControllerQuery(p, params) ==
    /\ Ready(p)
    /\ Return(p, Done("http_query", params, [raised |-> None],
                      Ok(Find(store, QueryFilter(None)))))
    /\ UNCHANGED <<store, nextId, now, hist>>

(***************************************************************************)
(* ProductUsecase.update                                                   *)
(***************************************************************************)
\* A JSON member that is left out, or given (null is None).
Absent == [given |-> FALSE, value |-> None]
Given(v) == [given |-> TRUE, value |-> v]
\* The PATCH bodies of the model.  updated_at is a field of ProductUpdate like
\* the others: a client may leave it out, send null, or send a time.
PatchFields ==
    { [quantity |-> None, price |-> None, status |-> None],
      [quantity |-> Some(5), price |-> Some(Decimal(4)), status |-> None] }
PatchUpdatedAt == {Absent, Given(None), Given(Some(0))}
PatchBodies == {f @@ [updated_at |-> u] : f \in PatchFields, u \in PatchUpdatedAt}
\* {"quantity": 5, "price": 4}
Restock ==
    [quantity |-> Some(5), price |-> Some(Decimal(4)), status |-> None,
     updated_at |-> Absent]

\* schemas/product.py:31-35: price goes through convert_decimal_128; an absent
\* updated_at is datetime.utcnow() at the time the body is built.
ProductUpdate(json, t) ==
    [quantity |-> json.quantity,
     price |-> IF json.price = None THEN None
               ELSE Some(convert_decimal_128(json.price[1])),
     status |-> json.status,
     updated_at |-> IF json.updated_at.given THEN json.updated_at.value ELSE Some(t)]

\* body.model_dump(exclude_none=True)
ModelDumpExcludeNone(body) ==
    [k \in {x \in DOMAIN body : body[x] # None} |-> body[k][1]]

\* As FindOneAndUpdate, with upsert=True: no match inserts the filter and $set.
FindOneAndUpdateUpsert(coll, flt, set) ==
    IF FindOne(coll, flt) = None
    THEN coll \cup {[k \in {flt.field} |-> flt.value] @@ set}
    ELSE (coll \ {FindOne(coll, flt)[1]}) \cup {ApplySet(FindOne(coll, flt)[1], set)}

\* find_one_and_update(filter, {"$set": set}, return_document=AFTER), no upsert.
FindOneAndUpdateResult(coll, flt, set) ==
    IF FindOne(coll, flt) = None THEN None
    ELSE Some(ApplySet(FindOne(coll, flt)[1], set))
FindOneAndUpdate(coll, flt, set) ==
    IF FindOne(coll, flt) = None THEN coll
    ELSE (coll \ {FindOne(coll, flt)[1]}) \cup {FindOneAndUpdateResult(coll, flt, set)[1]}

\* As UpdateHandler, without the `except NotFoundException: raise` clause.
UpdateHandlerWrapAll(e) ==
    InsertionException(<<"Failed to update product">> \o Str(e))

\* Lines 92-96: NotFoundException passes, anything else is wrapped.
UpdateHandler(e) ==
    IF e.kind = "NotFoundException" THEN e
    ELSE InsertionException(<<"Failed to update product">> \o Str(e))

\* Lines 70-72 (and 73-80, which build update_data, a local never read again).
UpdateCheck(p, id, json) ==
    /\ Ready(p)
    /\ LET existing_product == FindOne(store, Filter("id", id))
           body == ProductUpdate(json, now)
           arg == [id |-> id, body |-> body]
           e == NotFoundException(<<"Product not found", id>>)
       IN  IF existing_product = None
           THEN Return(p, Done("update", arg, [raised |-> Some(e)],
                               Raise(UpdateHandler(e))))
           ELSE /\ call' = [call EXCEPT ![p] = Await("update", "update_write", arg, None)]
                /\ last' = last
    /\ UNCHANGED <<store, nextId, now, hist>>

\* Lines 82-96, the update call raises.
UpdateWriteError(p) ==
    /\ At(p, "update", "update_write")
    /\ Return(p, Done("update", call[p].arg, [raised |-> None],
                      Raise(UpdateHandler(Exc("PyMongoError", <<"update failed">>)))))
    /\ UNCHANGED <<store, nextId, now, hist>>

\* Lines 82-96, the update call returns the updated document or None.
UpdateWrite(p) ==
    /\ At(p, "update", "update_write")
    /\ LET c == call[p]
           flt == Filter("id", c.arg.id)
           set == ModelDumpExcludeNone(c.arg.body)
           result == FindOneAndUpdateResult(store, flt, set)
           e == InsertionException(<<"Failed to update product">>)
       IN  /\ store' = FindOneAndUpdate(store, flt, set)
           /\ IF result = None
              THEN Return(p, Done("update", c.arg, [raised |-> Some(e)],
                                  Raise(UpdateHandler(e))))
              ELSE Return(p, Done("update", c.arg, [raised |-> None],
                                  Ok(ProductUpdateOut(result[1]))))
    /\ UNCHANGED <<nextId, now, hist>>

(***************************************************************************)
(* ProductUsecase.delete                                                   *)
(***************************************************************************)
\* As DeleteResult, with >= for >.
DeleteResultAtLeastZero(deleted_count) == deleted_count >= 0
\* Line 105.
DeleteResult(deleted_count) == deleted_count > 0

\* Lines 99-101.
DeleteCheck(p, id) ==
    /\ Ready(p)
    /\ LET product == FindOne(store, Filter("id", id))
           e == NotFoundException(<<"Product not found with filter", id>>)
       IN  IF product = None
           THEN Return(p, Done("delete", id, [raised |-> Some(e)], Raise(e)))
           ELSE /\ call' = [call EXCEPT ![p] = Await("delete", "delete_write", id, None)]
                /\ last' = last
    /\ UNCHANGED <<store, nextId, now, hist>>

\* Lines 103-105.
DeleteWrite(p) ==
    /\ At(p, "delete", "delete_write")
    /\ LET id == call[p].arg
           flt == Filter("id", id)
           ret == DeleteResult(DeletedCount(store, flt))
       IN  /\ store' = DeleteOne(store, flt)
           /\ Return(p, Done("delete", id, [raised |-> None], Ok(ret)))
           /\ hist' = [hist EXCEPT ![id].deletes =
                  IF ret /\ @ < 2 THEN @ + 1 ELSE @]
    /\ UNCHANGED <<nextId, now>>

(***************************************************************************)
(* The system: any request slot takes any step.                            *)
(***************************************************************************)
CreateNoIdSteps(bodies, drift) ==
    \E p \in Procs, body \in bodies, t2 \in SecondNow(now, drift) :
        CreateNoInsertedId(p, body, t2)
CreateSteps(bodies, drift) ==
    \/ \E p \in Procs, body \in bodies, t2 \in SecondNow(now, drift) :
          CreateInsertError(p, body, t2)
    \/ \E p \in Procs, body \in bodies, t2 \in SecondNow(now, drift) :
          CreateInsert(p, body, t2)
    \/ \E p \in Procs, fails \in BOOLEAN : CreateRollback(p, fails)
GetSteps == \E p \in Procs, id \in Uuids : Get(p, id)
QuerySteps ==
    \/ \E p \in Procs, filters \in FilterInputs : Query(p, filters)
    \/ \E p \in Procs, params \in FilterInputs : ControllerQuery(p, params)
UpdateSteps(bodies) ==
    \/ \E p \in Procs, id \in Uuids, json \in bodies : UpdateCheck(p, id, json)
    \/ \E p \in Procs : UpdateWriteError(p)
    \/ \E p \in Procs : UpdateWrite(p)
DeleteSteps ==
    \/ \E p \in Procs, id \in Uuids : DeleteCheck(p, id)
    \/ \E p \in Procs : DeleteWrite(p)

\* Every operation with every input.  The properties are checked under the
\* specifications that follow it, each this one cut down to the operations and
\* inputs its properties are about.
Next ==
    \/ Tick
    \/ CreateNoIdSteps(ProductIns, {0, 1})
    \/ CreateSteps(ProductIns, {0, 1})
    \/ GetSteps
    \/ QuerySteps
    \/ UpdateSteps(PatchBodies)
    \/ DeleteSteps
Spec == Init /\ [][Next]_vars

\* create and get, with every outcome of insert_one and the clock running.
NextCreate ==
    Tick \/ CreateNoIdSteps(ProductIns, {0, 1}) \/ CreateSteps(ProductIns, {0, 1})
         \/ GetSteps
SpecCreate == Init /\ [][NextCreate]_vars

\* create and the two queries.
NextQuery == CreateSteps(ProductIns, {0}) \/ QuerySteps
SpecQuery == Init /\ [][NextQuery]_vars

\* create, get and delete.
NextDelete == CreateSteps({Widget}, {0}) \/ GetSteps \/ DeleteSteps
SpecDelete == Init /\ [][NextDelete]_vars

\* create, update and delete.
NextUpdate == CreateSteps({Widget}, {0}) \/ UpdateSteps({Restock}) \/ DeleteSteps
SpecUpdate == Init /\ [][NextUpdate]_vars

\* create and update, for what an update of a missing id does.
NextPatch == CreateSteps({Widget}, {0}) \/ UpdateSteps({Restock})
SpecPatch == Init /\ [][NextPatch]_vars

\* create and update with the clock running and every PATCH body.
NextClock == Tick \/ CreateSteps({Widget}, {0, 1}) \/ UpdateSteps(PatchBodies)
SpecClock == Init /\ [][NextClock]_vars

(***************************************************************************)
(* Properties.  A property of one operation's step is an action formula    *)
(* over the steps that operation takes; `last` is the call that has just   *)
(* returned.                                                               *)
(***************************************************************************)
DocsWithId(coll, id) == {d \in coll : d.id = id}
IsRaise(out, kind) == out.kind = "raise" /\ out.exc.kind = kind

\* C1: a Create whose insert_one stored the document and reported its id returns
\* a record with a non-empty id, and a Get with that id then finds that record.
C1_CreateReturnsRetrievable ==
    (last.op = "create" /\ last.loc.result # None) =>
        /\ last.out.kind = "ok"
        /\ last.out.value.id # None
        /\ FindOne(store, GetFilter(last.out.value.id)) # None
        /\ ProductOut(FindOne(store, GetFilter(last.out.value.id))[1]) = last.out.value

\* What the compensating delete of p's create does to the store and records.
RollbackExact(p, fails) ==
    LET oid == call[p].loc.result[1]
    IN  /\ store' \subseteq store
        /\ store \ store' \subseteq {d \in store : d._id = oid}
        /\ ~fails => {d \in store' : d._id = oid} = {}
        /\ last'.loc.rollback = Some(Filter("_id", oid))
        /\ last'.loc.rollback_err = fails

\* C2: a Create adds at most one document; a Create that fails after insert_one
\* stored a document has attempted delete_one on exactly that document (by its
\* _id), which removes that document and no other unless the delete errors; and
\* a failed Create ends with InsertionException, also when that delete errored.
C2_CreateCompensates ==
    [][ /\ Cardinality(store' \ store) <= 1
        /\ \A p \in Procs : At(p, "create", "create_except") =>
               /\ Cardinality({d \in store : d._id = call[p].loc.result[1]}) <= 1
               /\ \A fails \in BOOLEAN :
                      CreateRollback(p, fails) => RollbackExact(p, fails)
        /\ last'.op = "create" =>
               /\ last'.out.kind = "raise" =>
                      last'.out.exc.kind = "InsertionException"
               /\ (last'.out.kind = "raise" /\ last'.loc.result # None) =>
                      last'.loc.rollback # None
      ]_vars

\* A Create failed after its insert, its compensating delete errored, and the
\* document is still in the store.
C2_Witness ==
    /\ last.op = "create"
    /\ last.loc.result # None
    /\ last.loc.rollback_err
    /\ IsRaise(last.out, "InsertionException")
    /\ \E d \in store : d._id = last.loc.result[1]

\* C3: Get(id) raises NotFoundException when no document has that id, which is
\* the case in every Get(id) after a Delete(id) that returned true; and it
\* returns the matching document when there is one.
C3_GetNotFound ==
    [][ \A p \in Procs, id \in Uuids : Get(p, id) =>
            /\ DocsWithId(store, id) = {} =>
                   IsRaise(last'.out, "NotFoundException")
            /\ DocsWithId(store, id) # {} =>
                   /\ last'.out.kind = "ok"
                   /\ last'.out.value \in {ProductOut(d) : d \in DocsWithId(store, id)}
            /\ hist[id].deletes > 0 => IsRaise(last'.out, "NotFoundException")
      ]_vars

\* A Get of an id whose Delete had returned true has raised NotFoundException.
C3_Witness ==
    /\ last.op = "get"
    /\ hist[last.arg].deletes > 0
    /\ IsRaise(last.out, "NotFoundException")

\* The filter semantics C4 states: inclusive price bounds, the name as a
\* case-insensitive substring, the status equal, absent fields unconstrained.
SubstringI(pat, text) ==
    \E off \in 0..(Len(text) - Len(pat)) :
        \A j \in 1..Len(pat) : Lower(pat[j]) = Lower(text[off + j])
Satisfies(d, f) ==
    /\ f.min_price # None => d.price.val >= f.min_price[1].val
    /\ f.max_price # None => d.price.val <= f.max_price[1].val
    /\ f.name # None => SubstringI(f.name[1], d.name)
    /\ f.status # None => d.status = f.status[1]

\* C4: a query with filters f, through the usecase or through GET /, returns
\* exactly the stored records that satisfy f (all of them without filters,
\* none when min_price > max_price).
C4_QueryExact ==
    [][ \A p \in Procs, f \in FilterInputs :
            (Query(p, f) \/ ControllerQuery(p, f)) =>
                last'.out = Ok({ProductOut(d) : d \in {x \in store : Satisfies(x, f)}})
      ]_vars

\* The document C5 expects after Update(id, body) at time t.
ExpectedUpdate(before, body, t) ==
    [before EXCEPT
        !.quantity = IF body.quantity # None THEN body.quantity[1] ELSE @,
        !.price = IF body.price # None THEN body.price[1] ELSE @,
        !.status = IF body.status # None THEN body.status[1] ELSE @,
        !.updated_at = t]

\* C5: a successful Update replaces, in the document with that id, the provided
\* fields and sets updated_at to the current time, changes nothing else in the
\* store, and returns the updated record.
C5_UpdateFrame ==
    [][ \A p \in Procs : (UpdateWrite(p) /\ last'.out.kind = "ok") =>
            LET before == CHOOSE d \in DocsWithId(store, call[p].arg.id) : TRUE
                after == ExpectedUpdate(before, call[p].arg.body, now)
            IN  /\ store' = (store \ {before}) \cup {after}
                /\ last'.out.value = ProductOut(after)
      ]_vars

\* C6: an Update of an id no document has raises NotFoundException, ends there
\* (it never reaches its write) and leaves the store as it was.
C6_UpdateNotFound ==
    [][ \A p \in Procs, id \in Uuids :
            (Ready(p) /\ DocsWithId(store, id) = {}) =>
                \A json \in PatchBodies :
                    UpdateCheck(p, id, json) =>
                        /\ last'.op = "update"
                        /\ IsRaise(last'.out, "NotFoundException")
                        /\ call'[p] = Idle
                        /\ store' = store
      ]_vars

\* An Update has raised NotFoundException for an id that is not in the store.
C6_Witness ==
    /\ last.op = "update"
    /\ IsRaise(last.out, "NotFoundException")
    /\ DocsWithId(store, last.arg.id) = {}

C9_UpdatedNotBeforeCreated == \A d \in store : d.updated_at >= d.created_at

=============================================================================
